---- MODULE Spec2Model ----
(***************************************************************************)
(* Durable conversation between Agent A (InitiatorWorkflow, TypeScript)    *)
(* and Agent B (TaskWorkflow, Python) over Temporal.                       *)
(*                                                                         *)
(* Agent B's durable state is what Temporal's event history of workflow    *)
(* task-<taskId> records: the inbound_message signals in order, the        *)
(* results of process_message in order, and which crash_worker and         *)
(* send_a2a_message activities are closed.  The worker's in-memory         *)
(* TaskWorkflowState is lost when the worker process dies and is rebuilt   *)
(* by replaying the history.  One conversation (one taskId) is modelled.   *)
(***************************************************************************)
EXTENDS Integers, Sequences, FiniteSets, TLC

VARIABLES
    history,          \* Agent B: what Temporal has recorded for task-<taskId>
    up,               \* Agent B: the worker process is running
    wf,               \* Agent B: in-memory TaskWorkflowState and handler coroutines
    posted,           \* Agent B: handlers whose running send attempt got its 2xx
    sendFails,        \* number of failed reply transmissions so far
    turnFaults,       \* number of failed attempts of sendA2AMessage so far
    turns,            \* Agent A: the `turns` of the start request
    drv,              \* Agent A: position of InitiatorWorkflow
    sentMessages,     \* Agent A: state.sentMessages
    receivedReplies,  \* Agent A: state.receivedReplies
    posts,            \* observer: successful POSTs of each reply id
    crashes,          \* observer: executions of crash_worker per message id
    shadow,           \* observer: the state of the execution that never lost its memory
    log,              \* observer: the HTTP exchanges the three endpoints have had
    started,          \* Temporal: InitiatorWorkflow executions started, per taskId
    langfuse          \* Agent A's worker: environment, Langfuse client, last traced send

vars ==
    << history, up, wf, posted, sendFails, turnFaults, turns,
       drv, sentMessages, receivedReplies, posts, crashes, shadow, log, started,
       langfuse >>

(***************************************************************************)
(* Program constants and bounds                                            *)
(***************************************************************************)
NumTurns == 3
WaitCount == 3
SendMaxAttempts == 3
InitialInterval == 1
BackoffCoefficient == 2
MaximumInterval == 10
MaxSendFails == 1
MaxTurnFaults == 1

TRIGGER == "[[TRIGGER:EXECUTE_ORDER_66]]"
AGENT_A_URL == "http://agent-a:8081/a2a/message/send"
Responses == {"reply"}
DefaultTurns == 3
MaxRequestedTurns == 3
MaxClientMessages == 1
MaxClientReplies == 1
MaxClientRequests == 1
RequestedTurns == 1..MaxRequestedTurns

MessageId(i) ==
    "m" \o ToString(i)

\* Turn contents that put the trigger first.
TurnContentTriggerFirst(i) ==
    IF i = 1 THEN TRIGGER
    ELSE IF i = 2 THEN "Soon, the Jedi will fall."
    ELSE "The time is near, Commander."

\* Turn contents with the trigger from the second turn on.
TurnContentEarlyTrigger(i) ==
    IF i = 1 THEN "The time is near, Commander." ELSE TRIGGER

TurnContent(i) ==
    IF i = 1 THEN "The time is near, Commander."
    ELSE IF i = 2 THEN "Soon, the Jedi will fall."
    ELSE TRIGGER

MessageIds == { MessageId(i) : i \in 1..NumTurns }

\* The conversation the model follows (README: "taskId": "demo-1") and
\* another one an A2A client may name.
TaskId == "demo-1"
TaskIds == {"demo-1", "demo-2"}

\* id=f"task-{task_id}"
TaskWorkflowId(task_id) ==
    "task-" \o task_id

\* A workflow id that does not depend on the conversation.
InitiatorWorkflowIdShared(taskId) ==
    "initiator"

\* const workflowId = `initiator-${taskId}`;
InitiatorWorkflowId(taskId) ==
    "initiator-" \o taskId

\* An envelope with a request id of its own.
PayloadOwnRequestId(params) ==
    [jsonrpc |-> "2.0", method |-> "message/send", params |-> params, id |-> "1"]

\* sendA2AMessage: the JSON-RPC 2.0 envelope; the message id is the request id.
Payload(params) ==
    [jsonrpc |-> "2.0", method |-> "message/send", params |-> params,
     id |-> params.messageId]

\* send_a2a_message: the envelope of a reply.
ReplyPayload(task_id, message_id, content) ==
    [jsonrpc |-> "2.0", method |-> "message/send",
     params |-> [taskId |-> task_id, messageId |-> message_id, content |-> content],
     id |-> message_id]

\* receive_message: the arguments of the inbound_message signal.
SignalArgs(body) ==
    [message_id |-> body.params.messageId, content |-> body.params.content,
     reply_to |-> body.params.replyTo]

\* receive_message: the answer.
ReceiveMessageResponse(body) ==
    [jsonrpc |-> "2.0", result |-> [status |-> "received"], id |-> body.id]

\* A start request whose body has no taskId.
NoTaskId == ""

\* POST /start-task: the body of the request.
StartTaskRequest(taskId, t) ==
    IF taskId = NoTaskId THEN [turns |-> t] ELSE [taskId |-> taskId, turns |-> t]

\* POST /start-task: the answer with status 400.
StartTaskMissing ==
    [error |-> "Missing required field: taskId"]

\* POST /start-task: the answer with status 500, when workflow.start throws.
StartTaskFailed ==
    [error |-> "Failed to start task", details |-> "Workflow execution already started"]

\* POST /start-task: the answer.
StartTaskResponse(taskId) ==
    [success |-> TRUE, taskId |-> taskId, workflowId |-> InitiatorWorkflowId(taskId),
     message |-> "Task " \o taskId \o " started. Workflow ID: "
                     \o InitiatorWorkflowId(taskId)]

\* A check that takes an empty field for a given one.
TruthyIfPresent(r, f) ==
    f \in DOMAIN r

\* A field of a request that is there and not empty (JavaScript: not falsy).
Truthy(r, f) ==
    f \in DOMAIN r /\ r[f] # ""

\* POST /a2a/message/send of Agent A: the required fields are there.
ValidReply(body) ==
    /\ Truthy(body.params, "taskId")
    /\ Truthy(body.params, "messageId")
    /\ Truthy(body.params, "content")

\* An endpoint that answers every valid request with the result, whatever
\* became of the signal.
MessageSendResponseSwallowsErrors(body, unavailable) ==
    IF ~ValidReply(body)
    THEN [jsonrpc |-> "2.0",
          error |-> [code |-> -32602,
                     message |-> "Missing required fields: taskId, messageId, content"]]
    ELSE [jsonrpc |-> "2.0", result |-> [status |-> "received"],
          id |-> IF Truthy(body, "id") THEN body.id ELSE body.params.messageId]

\* An endpoint whose error answers carry a result as well.
MessageSendResponseWithResult(body, unavailable) ==
    [jsonrpc |-> "2.0", result |-> [status |-> "received"],
     error |-> [code |-> -32603, message |-> "Internal server error"]]

\* POST /a2a/message/send of Agent A: the answer.  `unavailable` says that the
\* signal failed with an error other than WorkflowNotFoundError.
MessageSendResponse(body, unavailable) ==
    IF ~ValidReply(body)
    THEN IF "id" \in DOMAIN body
         THEN [jsonrpc |-> "2.0",
               error |-> [code |-> -32602,
                          message |-> "Missing required fields: taskId, messageId, content"],
               id |-> body.id]
         ELSE [jsonrpc |-> "2.0",
               error |-> [code |-> -32602,
                          message |-> "Missing required fields: taskId, messageId, content"]]
    ELSE IF unavailable
    THEN IF "id" \in DOMAIN body
         THEN [jsonrpc |-> "2.0",
               error |-> [code |-> -32603, message |-> "Internal server error"],
               id |-> body.id]
         ELSE [jsonrpc |-> "2.0",
               error |-> [code |-> -32603, message |-> "Internal server error"]]
    ELSE [jsonrpc |-> "2.0", result |-> [status |-> "received"],
          id |-> IF Truthy(body, "id") THEN body.id ELSE body.params.messageId]

\* One HTTP exchange as the observer keeps it.
Exchange(endpoint, from, request, response) ==
    [endpoint |-> endpoint, from |-> from, request |-> request, response |-> response]

(***************************************************************************)
(* Agent B: TaskWorkflow, as a deterministic function of what Temporal     *)
(* records for it.  Handler h is the h-th inbound_message coroutine that   *)
(* got past the idempotency check.                                         *)
(***************************************************************************)
InitWf ==
    [inbound |-> <<>>, outbound |-> <<>>, hs |-> <<>>, status |-> "running"]

NoMemory ==
    [inbound |-> <<>>, outbound |-> <<>>, hs |-> <<>>, status |-> "lost"]

EmptyHistory ==
    [signals |-> <<>>, crashed |-> {}, results |-> <<>>, sent |-> {}, failed |-> {}]

\* A guard that lets every delivery through.
IsNewAlways(inbound, message_id) ==
    TRUE

\* any(m["message_id"] == message_id for m in self.state.inbound_messages), negated
IsNew(inbound, message_id) ==
    \A j \in 1..Len(inbound) : inbound[j].message_id # message_id

\* "EXECUTE_ORDER_66" in content
CrashTrigger(content) ==
    content = TRIGGER

\* A reply id that does not depend on the message.
ReplyIdShared(message_id) ==
    "r-"

\* reply_id = f"r-{message_id}"
ReplyId(message_id) ==
    "r-" \o message_id

HasReply(outbound, reply_id) ==
    \E j \in 1..Len(outbound) : outbound[j].message_id = reply_id

\* next(m for m in self.state.outbound_messages if m["message_id"] == reply_id)
FirstIndex(outbound, reply_id) ==
    CHOOSE j \in 1..Len(outbound) :
        /\ outbound[j].message_id = reply_id
        /\ \A k \in 1..(j - 1) : outbound[k].message_id # reply_id

\* An outbox record created as already sent.
UpsertOutboxSent(outbound, reply_id, recipient_url) ==
    IF HasReply(outbound, reply_id)
    THEN outbound
    ELSE Append(outbound, [message_id |-> reply_id,
                           recipient_url |-> recipient_url, sent |-> TRUE])

\* An upsert that writes the record anew when it is already there.
UpsertOutboxOverwrite(outbound, reply_id, recipient_url) ==
    IF HasReply(outbound, reply_id)
    THEN [outbound EXCEPT ![FirstIndex(outbound, reply_id)] =
              [message_id |-> reply_id, recipient_url |-> recipient_url, sent |-> FALSE]]
    ELSE Append(outbound, [message_id |-> reply_id,
                           recipient_url |-> recipient_url, sent |-> FALSE])

\* if not any(...): self.state.outbound_messages.append({..., "sent": False})
UpsertOutbox(outbound, reply_id, recipient_url) ==
    IF HasReply(outbound, reply_id)
    THEN outbound
    ELSE Append(outbound, [message_id |-> reply_id,
                           recipient_url |-> recipient_url, sent |-> FALSE])

\* outbound["sent"] = True
MarkSent(outbound, reply_id) ==
    [outbound EXCEPT ![FirstIndex(outbound, reply_id)].sent = TRUE]

\* A handler whose idempotency key is the pair of message id and content.
OnSignalContentKey(w, msg, now) ==
    IF \E j \in 1..Len(w.inbound) :
           /\ w.inbound[j].message_id = msg.message_id
           /\ w.inbound[j].content = msg.content
    THEN w
    ELSE [w EXCEPT
            !.inbound = Append(@, [message_id |-> msg.message_id, content |-> msg.content,
                                   reply_to |-> msg.reply_to, timestamp |-> now]),
            !.hs = Append(@, [pc |-> IF CrashTrigger(msg.content) THEN "crash" ELSE "process",
                              message_id |-> msg.message_id, content |-> msg.content,
                              reply_to |-> msg.reply_to, response |-> ""])]

\* A handler that starts its activities without having appended the message.
OnSignalAppendLate(w, msg, now) ==
    IF ~IsNew(w.inbound, msg.message_id)
    THEN w
    ELSE [w EXCEPT
            !.hs = Append(@, [pc |-> IF CrashTrigger(msg.content) THEN "crash" ELSE "process",
                              message_id |-> msg.message_id, content |-> msg.content,
                              reply_to |-> msg.reply_to, response |-> ""])]

\* A handler that looks at the trigger before it appends the message.
OnSignalCrashFirst(w, msg, now) ==
    IF ~IsNew(w.inbound, msg.message_id)
    THEN w
    ELSE IF CrashTrigger(msg.content)
    THEN [w EXCEPT
            !.hs = Append(@, [pc |-> "crash",
                              message_id |-> msg.message_id, content |-> msg.content,
                              reply_to |-> msg.reply_to, response |-> ""])]
    ELSE [w EXCEPT
            !.inbound = Append(@, [message_id |-> msg.message_id, content |-> msg.content,
                                   reply_to |-> msg.reply_to, timestamp |-> now]),
            !.hs = Append(@, [pc |-> "process",
                              message_id |-> msg.message_id, content |-> msg.content,
                              reply_to |-> msg.reply_to, response |-> ""])]

\* The handler from its start to its first await (or its early return).
OnSignal(w, msg, now) ==
    IF ~IsNew(w.inbound, msg.message_id)
    THEN w
    ELSE [w EXCEPT
            !.inbound = Append(@, [message_id |-> msg.message_id, content |-> msg.content,
                                   reply_to |-> msg.reply_to, timestamp |-> now]),
            !.hs = Append(@, [pc |-> IF CrashTrigger(msg.content) THEN "crash" ELSE "process",
                              message_id |-> msg.message_id, content |-> msg.content,
                              reply_to |-> msg.reply_to, response |-> ""])]

\* The handler resumes after crash_worker has been closed.
OnCrashClosed(w, h) ==
    [w EXCEPT !.hs[h].pc = "process"]

\* The handler resumes with the result of process_message, up to the send.
OnProcessDone(w, h, response) ==
    LET reply_id == ReplyId(w.hs[h].message_id)
        out == UpsertOutbox(w.outbound, reply_id, w.hs[h].reply_to)
    IN  [w EXCEPT !.outbound = out,
                  !.hs[h].response = response,
                  !.hs[h].pc = IF out[FirstIndex(out, reply_id)].sent THEN "done" ELSE "send"]

\* process_message has used up its attempts: the error leaves the handler.
OnProcessFailed(w, h) ==
    [w EXCEPT !.hs[h].pc = "failed", !.status = "failed"]

\* A handler that finishes the send without marking the record.
OnSendDoneUnmarked(w, h) ==
    [w EXCEPT !.hs[h].pc = "done"]

\* The handler resumes after send_a2a_message has returned.
OnSendDone(w, h) ==
    [w EXCEPT !.outbound = MarkSent(@, ReplyId(w.hs[h].message_id)),
              !.hs[h].pc = "done"]

\* TaskWorkflow.run: wait_condition(len(inbound_messages) >= 3) has passed.
RunReturned(w) ==
    Len(w.inbound) >= WaitCount

\* A clock read when the code runs (datetime.now()): it moves with the history.
WallClock(hist, k) ==
    Len(hist.signals)

\* The time workflow.now() gives in the handler of the k-th signal: the time
\* Temporal recorded for that signal, whenever the code runs.
LogicalTime(hist, k) ==
    k

\* Each replay operator hands the state it has rebuilt so far to the next
\* event as a value (x), so that an event is applied once.
RECURSIVE ReplaySignals(_, _, _)
ReplaySignals(w, hist, k) ==
    IF k > Len(hist.signals)
    THEN w
    ELSE CHOOSE r \in { ReplaySignals(x, hist, k + 1) :
                        x \in {OnSignal(w, hist.signals[k], LogicalTime(hist, k))} } : TRUE

RECURSIVE ReplayCrashed(_, _, _)
ReplayCrashed(w, hist, h) ==
    IF h > Len(w.hs)
    THEN w
    ELSE CHOOSE r \in { ReplayCrashed(x, hist, h + 1) :
                        x \in {IF h \in hist.crashed THEN OnCrashClosed(w, h) ELSE w} } : TRUE

\* A replay that does not look at the recorded results of process_message.
ReplayResultsSkipped(w, hist, k) ==
    w

RECURSIVE ReplayResults(_, _, _)
ReplayResults(w, hist, k) ==
    IF k > Len(hist.results)
    THEN w
    ELSE CHOOSE r \in { ReplayResults(x, hist, k + 1) :
                        x \in {OnProcessDone(w, hist.results[k].h,
                                             hist.results[k].response)} } : TRUE

RECURSIVE ReplaySent(_, _, _)
ReplaySent(w, hist, h) ==
    IF h > Len(w.hs)
    THEN w
    ELSE CHOOSE r \in { ReplaySent(x, hist, h + 1) :
                        x \in {IF h \in hist.sent THEN OnSendDone(w, h) ELSE w} } : TRUE

RECURSIVE ReplayFailed(_, _, _)
ReplayFailed(w, hist, h) ==
    IF h > Len(w.hs)
    THEN w
    ELSE CHOOSE r \in { ReplayFailed(x, hist, h + 1) :
                        x \in {IF h \in hist.failed THEN OnProcessFailed(w, h) ELSE w} } : TRUE

\* Workflow replay: the workflow code run again on the recorded events.
Replay(hist) ==
    ReplayFailed(
        ReplaySent(
            ReplayResults(
                ReplayCrashed(ReplaySignals(InitWf, hist, 1), hist, 1),
                hist, 1),
            hist, 1),
        hist, 1)

(***************************************************************************)
(* Initial state: nothing sent, Agent B's worker running with an empty     *)
(* TaskWorkflowState.                                                      *)
(***************************************************************************)
ReplyIds == { ReplyId(m) : m \in MessageIds }

Init ==
    /\ history = EmptyHistory
    /\ up = TRUE
    /\ wf = InitWf
    /\ posted = {}
    /\ sendFails = 0
    /\ turnFaults = 0
    /\ turns = DefaultTurns
    /\ drv = [pc |-> "idle", i |-> 1, attempt |-> 1, wait |-> 0, error |-> "none"]
    /\ sentMessages = <<>>
    /\ receivedReplies = <<>>
    /\ posts = [r \in ReplyIds |-> 0]
    /\ crashes = [m \in MessageIds |-> 0]
    /\ shadow = InitWf
    /\ log = {}
    /\ started = [t \in TaskIds |-> 0]
    /\ langfuse = [booted |-> FALSE,
                   env |-> [LANGFUSE_PUBLIC_KEY |-> "", LANGFUSE_SECRET_KEY |-> ""],
                   langfuseClient |-> "null", created |-> 0, returned |-> "none",
                   send |-> <<>>]

Handlers == 1..Len(wf.hs)

Running == up /\ wf.status = "running"

(***************************************************************************)
(* Agent B: signal, activities and the worker process                      *)
(***************************************************************************)
\* An endpoint that answers without signalling the workflow.
InboundMessageUnsignalled(msg) ==
    UNCHANGED <<history, wf, shadow>>

\* receive_message signals the workflow; the handler runs to its first await.
InboundMessage(msg) ==
    /\ history' = [history EXCEPT !.signals = Append(@, msg)]
    /\ wf' = OnSignal(wf, msg, LogicalTime(history, Len(history.signals) + 1))
    /\ shadow' = OnSignal(shadow, msg, LogicalTime(history, Len(history.signals) + 1))

\* receive_message: the workflow task-<taskId> is signalled and the request is
\* answered; a workflow of another conversation is outside this ledger.
ReceiveMessage(from, body) ==
    /\ log' = log \cup {Exchange("agent-b", from, body, ReceiveMessageResponse(body))}
    /\ IF TaskWorkflowId(body.params.taskId) = TaskWorkflowId(TaskId)
       THEN InboundMessage(SignalArgs(body))
       ELSE UNCHANGED <<history, wf, shadow>>

\* A crash that leaves no trace in the history.
CrashWorkerUnrecorded(h) ==
    /\ Running
    /\ wf.hs[h].pc = "crash"
    /\ up' = FALSE
    /\ wf' = NoMemory
    /\ posted' = {}
    /\ crashes' = [crashes EXCEPT ![wf.hs[h].message_id] = @ + 1]
    /\ UNCHANGED << history, sendFails, turnFaults, turns, drv, sentMessages,
                    receivedReplies, posts, shadow, log, started, langfuse >>

\* crash_worker runs: sys.exit(1).  The activity is closed in the history, the
\* process and every activity attempt running in it are gone.
CrashWorker(h) ==
    /\ Running
    /\ wf.hs[h].pc = "crash"
    /\ history' = [history EXCEPT !.crashed = @ \cup {h}]
    /\ shadow' = OnCrashClosed(shadow, h)
    /\ up' = FALSE
    /\ wf' = NoMemory
    /\ posted' = {}
    /\ crashes' = [crashes EXCEPT ![wf.hs[h].message_id] = @ + 1]
    /\ UNCHANGED << sendFails, turnFaults, turns, drv, sentMessages,
                    receivedReplies, posts, log, started, langfuse >>

\* A restart that begins with an empty workflow state.
RestartFresh ==
    /\ ~up
    /\ up' = TRUE
    /\ wf' = InitWf
    /\ UNCHANGED << history, posted, sendFails, turnFaults, turns, drv,
                    sentMessages, receivedReplies, posts, crashes, shadow,
                    log, started, langfuse >>

\* Docker restarts the container; the worker replays the workflow history.
Restart ==
    /\ ~up
    /\ up' = TRUE
    /\ wf' = Replay(history)
    /\ UNCHANGED << history, posted, sendFails, turnFaults, turns, drv,
                    sentMessages, receivedReplies, posts, crashes, shadow,
                    log, started, langfuse >>

\* process_message returns a reply text.
ProcessMessage(h, response) ==
    /\ Running
    /\ wf.hs[h].pc = "process"
    /\ history' = [history EXCEPT !.results = Append(@, [h |-> h, response |-> response])]
    /\ wf' = OnProcessDone(wf, h, response)
    /\ shadow' = OnProcessDone(shadow, h, response)
    /\ UNCHANGED << up, posted, sendFails, turnFaults, turns, drv,
                    sentMessages, receivedReplies, posts, crashes, log,
                    started, langfuse >>

\* process_message fails on every attempt RetryPolicy(maximum_attempts=3) allows;
\* the ActivityError leaves the handler and the workflow fails.
ProcessFail(h) ==
    /\ Running
    /\ wf.hs[h].pc = "process"
    /\ history' = [history EXCEPT !.failed = @ \cup {h}]
    /\ wf' = OnProcessFailed(wf, h)
    /\ shadow' = OnProcessFailed(shadow, h)
    /\ UNCHANGED << up, posted, sendFails, turnFaults, turns, drv,
                    sentMessages, receivedReplies, posts, crashes, log,
                    started, langfuse >>

\* An endpoint whose signal always finds a workflow.
DriverOpenAlways ==
    TRUE

\* Agent A's endpoint signals initiator-<taskId>; a workflow that is not found
\* (not started, or closed) drops the reply.
DriverOpen ==
    drv.pc \notin {"idle", "completed"}

\* A handler that does not keep the reply.
ReplyReceivedDropped(replies, messageId, content) ==
    replies

\* A handler that mixes up the fields of the reply.
ReplyReceivedSwapped(replies, messageId, content) ==
    Append(replies, [messageId |-> content, content |-> messageId])

\* The replyReceived handler pushes the reply.
ReplyReceived(replies, messageId, content) ==
    Append(replies, [messageId |-> messageId, content |-> content])

\* POST /a2a/message/send of Agent A: what becomes of the signal.  A request
\* that is rejected sends none; a signal to initiator-<taskId> reaches the
\* workflow, finds none, or fails with another error.
SignalOutcome(body, unavailable) ==
    IF ~ValidReply(body) THEN "none"
    ELSE IF unavailable THEN "failed"
    ELSE IF InitiatorWorkflowId(body.params.taskId) = InitiatorWorkflowId(TaskId) /\ DriverOpen
    THEN "signalled"
    ELSE "not-found"

\* POST /a2a/message/send of Agent A: a valid reply is signalled to the
\* workflow initiator-<taskId>; a workflow that is not found is only logged.
MessageSend(from, body, unavailable) ==
    /\ log' = log \cup {[endpoint |-> "agent-a", from |-> from, request |-> body,
                          response |-> MessageSendResponse(body, unavailable),
                          signal |-> SignalOutcome(body, unavailable)]}
    /\ receivedReplies' =
          IF SignalOutcome(body, unavailable) = "signalled"
          THEN ReplyReceived(receivedReplies, body.params.messageId, body.params.content)
          ELSE receivedReplies

\* send_a2a_message: the POST reaches Agent A and is answered 2xx.
SendPost(h) ==
    /\ Running
    /\ wf.hs[h].pc = "send"
    /\ h \notin posted
    /\ posted' = posted \cup {h}
    /\ posts' = [posts EXCEPT ![ReplyId(wf.hs[h].message_id)] = @ + 1]
    /\ MessageSend("agent-b",
                   ReplyPayload(TaskId, ReplyId(wf.hs[h].message_id), wf.hs[h].response),
                   FALSE)
    /\ UNCHANGED << history, up, wf, sendFails, turnFaults, turns, drv,
                    sentMessages, crashes, shadow, started, langfuse >>

\* send_a2a_message returns; the handler sets outbound["sent"] = True.
SendComplete(h) ==
    /\ Running
    /\ wf.hs[h].pc = "send"
    /\ h \in posted
    /\ posted' = posted \ {h}
    /\ history' = [history EXCEPT !.sent = @ \cup {h}]
    /\ wf' = OnSendDone(wf, h)
    /\ shadow' = OnSendDone(shadow, h)
    /\ UNCHANGED << up, sendFails, turnFaults, turns, drv, sentMessages,
                    receivedReplies, posts, crashes, log, started, langfuse >>

\* A failed transmission that marks the record as sent.
SendFailMarksSent(h) ==
    /\ Running
    /\ wf.hs[h].pc = "send"
    /\ h \notin posted
    /\ sendFails < MaxSendFails
    /\ sendFails' = sendFails + 1
    /\ history' = [history EXCEPT !.sent = @ \cup {h}]
    /\ wf' = OnSendDone(wf, h)
    /\ shadow' = OnSendDone(shadow, h)
    /\ UNCHANGED << up, posted, turnFaults, turns, drv, sentMessages,
                    receivedReplies, posts, crashes, log, started, langfuse >>

\* An attempt of send_a2a_message does not reach Agent A; Temporal retries it.
SendFail(h) ==
    /\ Running
    /\ wf.hs[h].pc = "send"
    /\ h \notin posted
    /\ sendFails < MaxSendFails
    /\ sendFails' = sendFails + 1
    /\ UNCHANGED << history, up, wf, posted, turnFaults, turns, drv,
                    sentMessages, receivedReplies, posts, crashes, shadow,
                    log, started, langfuse >>

(***************************************************************************)
(* Agent A: InitiatorWorkflow                                              *)
(***************************************************************************)
\* The parameters the loop gives sendA2AMessage for turn i.
TurnParams(i) ==
    [taskId |-> TaskId, messageId |-> MessageId(i), replyTo |-> AGENT_A_URL,
     content |-> TurnContent(i)]

TurnMessage(i) ==
    SignalArgs(Payload(TurnParams(i)))

\* A loop that does not advance its index.
NextTurnRepeated(d) ==
    [pc |-> "send", i |-> d.i, attempt |-> 1, wait |-> 0, error |-> "none"]

NextTurn(d) ==
    IF d.i < NumTurns
    THEN [pc |-> "send", i |-> d.i + 1, attempt |-> 1, wait |-> 0, error |-> "none"]
    ELSE [pc |-> "grace", i |-> d.i, attempt |-> 1, wait |-> 0, error |-> "none"]

\* The kinds of failure an attempt of sendA2AMessage can meet: a network
\* error or an HTTP 5xx/429 status, and an HTTP 400/401 status.
ErrorKinds == {"TransientFailure", "PermanentFailure"}

\* sendA2AMessage throws new Error(`HTTP ${status}: ...`) for every status that
\* is not ok, and rethrows what fetch throws.
ThrownType(kind) ==
    "Error"

\* The retry options of proxyActivities name no nonRetryableErrorTypes.
NonRetryableErrorTypes == {}

Retryable(kind) ==
    ThrownType(kind) \notin NonRetryableErrorTypes

\* A retry policy that waits the initial interval before every retry.
RetryWaitFixed(n) ==
    InitialInterval

\* The wait after the n-th failed attempt: initialInterval times
\* backoffCoefficient^(n - 1), at most maximumInterval.
RetryWait(n) ==
    IF InitialInterval * BackoffCoefficient ^ (n - 1) < MaximumInterval
    THEN InitialInterval * BackoffCoefficient ^ (n - 1)
    ELSE MaximumInterval

\* A retry policy without a last attempt.
AfterFailedAttemptRetry(d, kind) ==
    [d EXCEPT !.attempt = 1]

\* A catch block that is followed by the wait for the reply.
AfterFailedAttemptThenWait(d, kind) ==
    IF Retryable(kind) /\ d.attempt < SendMaxAttempts
    THEN [d EXCEPT !.attempt = @ + 1, !.wait = RetryWait(d.attempt), !.error = kind]
    ELSE [d EXCEPT !.pc = "sleep", !.attempt = 1, !.wait = 0, !.error = "none"]

\* A workflow without the try/catch around the send: the error of the last
\* attempt fails the workflow.
AfterFailedAttemptUncaught(d, kind) ==
    IF Retryable(kind) /\ d.attempt < SendMaxAttempts
    THEN [d EXCEPT !.attempt = @ + 1, !.wait = RetryWait(d.attempt), !.error = kind]
    ELSE [d EXCEPT !.pc = "failed"]

\* A failed attempt of sendA2AMessage: retried after the wait while the error
\* is retryable and attempts are left, then the catch block moves on to the
\* next turn.
AfterFailedAttempt(d, kind) ==
    IF Retryable(kind) /\ d.attempt < SendMaxAttempts
    THEN [d EXCEPT !.attempt = @ + 1, !.wait = RetryWait(d.attempt), !.error = kind]
    ELSE NextTurn(d)

\* The InitiatorWorkflow executions of a conversation that have been started
\* and have not ended.
RunningDrivers(taskId) ==
    started[taskId] - (IF taskId = TaskId /\ drv.pc \in {"completed", "failed"} THEN 1 ELSE 0)

\* A handler that starts a workflow whether or not one is running.
StartTaskUnchecked(from, taskId, t) ==
    /\ LET own == InitiatorWorkflowId(taskId) = InitiatorWorkflowId(TaskId)
           key == IF own THEN TaskId ELSE taskId
       IN  IF taskId = NoTaskId
           THEN /\ log' = log \cup {Exchange("start-task", from, StartTaskRequest(taskId, t),
                                              StartTaskMissing)}
                /\ UNCHANGED << drv, turns, started >>
           ELSE /\ log' = log \cup {Exchange("start-task", from, StartTaskRequest(taskId, t),
                                              StartTaskResponse(taskId))}
                /\ started' = [started EXCEPT ![key] = @ + 1]
                /\ IF own
                   THEN /\ turns' = t
                        /\ drv' = [pc |-> "send", i |-> 1, attempt |-> 1, wait |-> 0,
                                   error |-> "none"]
                   ELSE UNCHANGED << drv, turns >>
    /\ UNCHANGED << history, up, wf, posted, sendFails, turnFaults,
                    sentMessages, receivedReplies, posts, crashes, shadow,
                    langfuse >>

\* POST /start-task reads taskId and turns (default 3) from the body, answers
\* 400 without a taskId, and starts InitiatorWorkflow with the workflow id
\* initiator-<taskId> and args [taskId, agentBUrl, agentAUrl]; when
\* workflow.start throws (an execution with that id is running) it answers 500.
StartTask(from, taskId, t) ==
    /\ LET own == InitiatorWorkflowId(taskId) = InitiatorWorkflowId(TaskId)
           key == IF own THEN TaskId ELSE taskId
       IN  IF taskId = NoTaskId
           THEN /\ log' = log \cup {Exchange("start-task", from, StartTaskRequest(taskId, t),
                                              StartTaskMissing)}
                /\ UNCHANGED << drv, turns, started >>
           ELSE IF RunningDrivers(key) > 0
           THEN /\ log' = log \cup {Exchange("start-task", from, StartTaskRequest(taskId, t),
                                              StartTaskFailed)}
                /\ UNCHANGED << drv, turns, started >>
           ELSE /\ log' = log \cup {Exchange("start-task", from, StartTaskRequest(taskId, t),
                                              StartTaskResponse(taskId))}
                /\ started' = [started EXCEPT ![key] = @ + 1]
                /\ IF own
                   THEN /\ turns' = t
                        /\ drv' = [pc |-> "send", i |-> 1, attempt |-> 1, wait |-> 0,
                                   error |-> "none"]
                   ELSE UNCHANGED << drv, turns >>
    /\ UNCHANGED << history, up, wf, posted, sendFails, turnFaults,
                    sentMessages, receivedReplies, posts, crashes, shadow,
                    langfuse >>

\* The user starts the conversation.
UserStart(t) ==
    /\ drv.pc = "idle"
    /\ StartTask("user", TaskId, t)

\* sendA2AMessage succeeds: Agent B signalled its workflow and answered.
SendTurn ==
    /\ drv.pc = "send"
    /\ Running
    /\ ReceiveMessage("driver", Payload(TurnParams(drv.i)))
    /\ sentMessages' = Append(sentMessages,
                              [messageId |-> MessageId(drv.i), content |-> TurnContent(drv.i)])
    /\ drv' = [drv EXCEPT !.pc = "sleep", !.attempt = 1, !.wait = 0, !.error = "none"]
    /\ UNCHANGED << up, posted, sendFails, turnFaults, turns,
                    receivedReplies, posts, crashes, started, langfuse >>

\* Agent B signalled its workflow but the attempt failed at Agent A (the answer
\* was lost or late).
SendTurnLost ==
    /\ drv.pc = "send"
    /\ Running
    /\ turnFaults < MaxTurnFaults
    /\ turnFaults' = turnFaults + 1
    /\ ReceiveMessage("driver", Payload(TurnParams(drv.i)))
    /\ drv' = AfterFailedAttempt(drv, "TransientFailure")
    /\ UNCHANGED << up, posted, sendFails, turns, sentMessages,
                    receivedReplies, posts, crashes, started, langfuse >>

\* The attempt did not reach Agent B's workflow: a transient fault, or Agent B's
\* worker is down or its workflow closed.
SendTurnFail ==
    /\ drv.pc = "send"
    /\ ~Running \/ turnFaults < MaxTurnFaults
    /\ turnFaults' = IF Running THEN turnFaults + 1 ELSE turnFaults
    /\ drv' = AfterFailedAttempt(drv, "TransientFailure")
    /\ UNCHANGED << history, up, wf, posted, sendFails, turns, sentMessages,
                    receivedReplies, posts, crashes, shadow, log, started,
                    langfuse >>

\* Agent B's side answers the attempt with HTTP 400 or 401.
SendTurnRejected ==
    /\ drv.pc = "send"
    /\ up
    /\ turnFaults < MaxTurnFaults
    /\ turnFaults' = turnFaults + 1
    /\ drv' = AfterFailedAttempt(drv, "PermanentFailure")
    /\ UNCHANGED << history, up, wf, posted, sendFails, turns, sentMessages,
                    receivedReplies, posts, crashes, shadow, log, started,
                    langfuse >>

\* A wait that ends only when the reply of the turn is there.
ReplyWaitElapsedOnReply ==
    /\ drv.pc = "sleep"
    /\ \E j \in 1..Len(receivedReplies) :
           receivedReplies[j].messageId = ReplyId(MessageId(drv.i))
    /\ drv' = NextTurn(drv)
    /\ UNCHANGED << history, up, wf, posted, sendFails, turnFaults, turns,
                    sentMessages, receivedReplies, posts, crashes, shadow,
                    log, started, langfuse >>

\* sleep('30s') ends.
ReplyWaitElapsed ==
    /\ drv.pc = "sleep"
    /\ drv' = NextTurn(drv)
    /\ UNCHANGED << history, up, wf, posted, sendFails, turnFaults, turns,
                    sentMessages, receivedReplies, posts, crashes, shadow,
                    log, started, langfuse >>

\* sleep('10s') ends and the workflow returns its state.
GraceElapsed ==
    /\ drv.pc = "grace"
    /\ drv' = [drv EXCEPT !.pc = "completed"]
    /\ UNCHANGED << history, up, wf, posted, sendFails, turnFaults, turns,
                    sentMessages, receivedReplies, posts, crashes, shadow,
                    log, started, langfuse >>

Next ==
    \/ UserStart(DefaultTurns)
    \/ SendTurn
    \/ SendTurnLost
    \/ SendTurnFail
    \/ ReplyWaitElapsed
    \/ GraceElapsed
    \/ \E h \in Handlers : CrashWorker(h)
    \/ Restart
    \/ \E h \in Handlers, r \in Responses : ProcessMessage(h, r)
    \/ \E h \in Handlers : ProcessFail(h)
    \/ \E h \in Handlers : SendPost(h)
    \/ \E h \in Handlers : SendComplete(h)
    \/ \E h \in Handlers : SendFail(h)

Spec == Init /\ [][Next]_vars

(***************************************************************************)
(* Scenario B: the crash on the trigger message and duplicate deliveries,  *)
(* with no failing activity; Temporal runs every pending activity and      *)
(* timer, Docker restarts the container.                                   *)
(***************************************************************************)
Progress ==
    \/ UserStart(DefaultTurns)
    \/ SendTurn
    \/ ReplyWaitElapsed
    \/ GraceElapsed
    \/ \E h \in Handlers : CrashWorker(h)
    \/ Restart
    \/ \E h \in Handlers, r \in Responses : ProcessMessage(h, r)
    \/ \E h \in Handlers : SendPost(h)
    \/ \E h \in Handlers : SendComplete(h)

NextB ==
    \/ Progress
    \/ SendTurnLost

SpecB == Init /\ [][NextB]_vars /\ WF_vars(Progress)

(***************************************************************************)
(* The whole system with Temporal firing the driver's timers and running   *)
(* its activity attempts; Agent B may be slow, fail or stay down.          *)
(***************************************************************************)
DriverStep ==
    \/ SendTurn
    \/ SendTurnLost
    \/ SendTurnFail
    \/ ReplyWaitElapsed
    \/ GraceElapsed

SpecD == Init /\ [][Next]_vars /\ WF_vars(DriverStep)

(***************************************************************************)
(* The same, with attempts that are answered by a permanent failure.       *)
(***************************************************************************)
NextP ==
    \/ Next
    \/ SendTurnRejected

SpecP == Init /\ [][NextP]_vars /\ WF_vars(DriverStep)

(***************************************************************************)
(* The system started with any requested number of turns.                  *)
(***************************************************************************)
NextT ==
    \/ \E t \in RequestedTurns : UserStart(t)
    \/ Next

SpecT == Init /\ [][NextT]_vars

(***************************************************************************)
(* Scenario A: no activity fails and every reply is in time: the send of   *)
(* the reply to a turn has returned before the wait of that turn (30 s,    *)
(* for the last turn 30 s + 10 s) is over.                                 *)
(***************************************************************************)
\* Reply texts process_message gives in this scenario.
ScenarioResponses == {"reply", "Yes, my lord."}

TurnSettled(i) ==
    \E h \in Handlers : wf.hs[h].message_id = MessageId(i) /\ wf.hs[h].pc = "done"

NextA ==
    \/ UserStart(DefaultTurns)
    \/ SendTurn
    \/ (drv.i = NumTurns \/ TurnSettled(drv.i)) /\ ReplyWaitElapsed
    \/ TurnSettled(NumTurns) /\ GraceElapsed
    \/ \E h \in Handlers : CrashWorker(h)
    \/ Restart
    \/ \E h \in Handlers, r \in ScenarioResponses : ProcessMessage(h, r)
    \/ \E h \in Handlers : SendPost(h)
    \/ \E h \in Handlers : SendComplete(h)

SpecA == Init /\ [][NextA]_vars

(***************************************************************************)
(* Scenario A with the endpoints open to any A2A client: a client may post *)
(* a message that names a conversation and a message id of its choice.     *)
(***************************************************************************)
\* A content no turn of the driver has.
ClientContent == "Stand down."

\* Requests a client sends to Agent B: one of the driver's message ids, in
\* this conversation or in another one.
ClientMessageBodies ==
    { Payload([taskId |-> t, messageId |-> m, replyTo |-> AGENT_A_URL,
               content |-> ClientContent]) : t \in TaskIds, m \in MessageIds }

\* Requests a client sends to Agent A: valid replies for this conversation and
\* for another one, with and without a request id, and requests with a
\* missing or empty field.
ClientReplyBodies ==
    { ReplyPayload(t, "r-0", ClientContent) : t \in TaskIds }
    \cup { [jsonrpc |-> "2.0", method |-> "message/send",
            params |-> [taskId |-> TaskId, messageId |-> "r-0", content |-> ClientContent]],
           [jsonrpc |-> "2.0", method |-> "message/send",
            params |-> [taskId |-> TaskId, messageId |-> "r-0"], id |-> "r-0"],
           [jsonrpc |-> "2.0", method |-> "message/send",
            params |-> [taskId |-> TaskId, messageId |-> "r-0", content |-> ""]],
           [jsonrpc |-> "2.0", method |-> "message/send",
            params |-> [messageId |-> "r-0", content |-> ClientContent], id |-> "r-0"],
           [jsonrpc |-> "2.0", method |-> "message/send",
            params |-> [taskId |-> TaskId, content |-> ClientContent], id |-> "r-0"] }

ClientDeliveries ==
    Cardinality({ k \in 1..Len(history.signals) :
                      history.signals[k].content = ClientContent })

ClientReplies ==
    Cardinality({ j \in 1..Len(receivedReplies) :
                      receivedReplies[j].content = ClientContent })

ClientRequests ==
    Cardinality({ e \in log : e.from = "client" })

\* A client posts a message to Agent B.
ClientMessage(body) ==
    /\ Running
    /\ ClientDeliveries < MaxClientMessages
    /\ ClientRequests < MaxClientRequests
    /\ ReceiveMessage("client", body)
    /\ UNCHANGED << up, posted, sendFails, turnFaults, turns, drv,
                    sentMessages, receivedReplies, posts, crashes, started,
                    langfuse >>

\* A client posts a start request, before the driver of the conversation has
\* ended.
ClientStart(taskId) ==
    /\ ClientRequests < MaxClientRequests
    /\ taskId = TaskId => drv.pc \notin {"completed", "failed"}
    /\ StartTask("client", taskId, DefaultTurns)

\* A client posts a reply to Agent A.
ClientReply(body, unavailable) ==
    /\ ClientReplies < MaxClientReplies
    /\ ClientRequests < MaxClientRequests
    /\ MessageSend("client", body, unavailable)
    /\ UNCHANGED << history, up, wf, posted, sendFails, turnFaults, turns,
                    drv, sentMessages, posts, crashes, shadow, started,
                    langfuse >>

NextX ==
    \/ NextA
    \/ \E t \in TaskIds \cup {NoTaskId} : ClientStart(t)
    \/ \E body \in ClientMessageBodies : ClientMessage(body)
    \/ \E body \in ClientReplyBodies, unavailable \in BOOLEAN : ClientReply(body, unavailable)

SpecX == Init /\ [][NextX]_vars

(***************************************************************************)
(* Agent A's activity sendA2AMessage, without and with Langfuse tracing    *)
(***************************************************************************)
AGENT_B_URL == "http://agent-b:8080/a2a/message/send"

\* What fetch can come back with: the network fails, Agent B answers with an
\* error status, with JSON, or with a body that is not JSON.
HttpOutcomes ==
    { [kind |-> "network"],
      [kind |-> "status", status |-> 400, statusText |-> "Bad Request"],
      [kind |-> "status", status |-> 401, statusText |-> "Unauthorized"],
      [kind |-> "status", status |-> 404, statusText |-> "Not Found"],
      [kind |-> "status", status |-> 500, statusText |-> "Internal Server Error"],
      [kind |-> "json", body |-> [jsonrpc |-> "2.0", result |-> [status |-> "received"]]],
      [kind |-> "text"] }

\* langfuse.flushAsync() resolves or rejects.
FlushOutcomes == {"flushed", "rejected"}

\* The values the two keys can have in the environment.
KeyValues == {"", "key"}

\* fetch(recipientUrl, {method, headers, body: JSON.stringify(payload)})
HttpRequest(recipientUrl, params) ==
    [url |-> recipientUrl, method |-> "POST",
     headers |-> [ContentType |-> "application/json"], body |-> Payload(params)]

\* The try block up to `return result`: fetch, the check of response.ok and
\* response.json().
FetchResult(http) ==
    IF http.kind = "network" THEN [thrown |-> "TypeError: fetch failed"]
    ELSE IF http.kind = "status"
    THEN [thrown |-> "Error: HTTP " \o ToString(http.status) \o ": " \o http.statusText]
    ELSE IF http.kind = "text" THEN [thrown |-> "SyntaxError: Unexpected token"]
    ELSE [returned |-> http.body]

\* sendA2AMessage of the worker without tracing: the catch block logs and
\* throws the error again.
SendA2AMessage(recipientUrl, params, http) ==
    [request |-> HttpRequest(recipientUrl, params), outcome |-> FetchResult(http)]

\* A traced send that reports a failure in the trace and returns.
SendA2AMessageTracedSwallowed(recipientUrl, params, http, client, flush) ==
    [request |-> HttpRequest(recipientUrl, params),
     outcome |-> IF "thrown" \in DOMAIN FetchResult(http)
                 THEN [returned |-> [status |-> "error"]]
                 ELSE FetchResult(http),
     traced |-> <<>>]

\* sendA2AMessage with tracing: trace and span are opened when there is a
\* client; span.end, trace.update and flushAsync run before the return and, in
\* the catch block, before the error is thrown again.  A flushAsync that
\* rejects in the try block is caught by the catch block like any error.
SendA2AMessageTraced(recipientUrl, params, http, client, flush) ==
    LET opened == IF client = "null" THEN <<>> ELSE << "trace", "span" >>
        success == << "span.end", "trace.update: success", "flushAsync" >>
        failure == << "span.end", "trace.update: error", "flushAsync" >>
        fetched == FetchResult(http)
        tried ==
            IF "thrown" \in DOMAIN fetched \/ client = "null" \/ flush = "flushed"
            THEN fetched
            ELSE [thrown |-> "Error: flush rejected"]
        caught ==
            IF "returned" \in DOMAIN tried \/ client = "null" \/ flush = "flushed"
            THEN tried
            ELSE [thrown |-> "Error: flush rejected"]
    IN  [request |-> HttpRequest(recipientUrl, params),
         outcome |-> caught,
         traced |-> IF client = "null" THEN <<>>
                    ELSE opened
                         \o (IF "returned" \in DOMAIN fetched THEN success ELSE <<>>)
                         \o (IF "thrown" \in DOMAIN tried THEN failure ELSE <<>>)]

\* The worker process starts with its environment.
ConfigureLangfuse(publicKey, secretKey) ==
    /\ ~langfuse.booted
    /\ langfuse' = [langfuse EXCEPT !.booted = TRUE,
                                     !.env = [LANGFUSE_PUBLIC_KEY |-> publicKey,
                                              LANGFUSE_SECRET_KEY |-> secretKey]]
    /\ UNCHANGED << history, up, wf, posted, sendFails, turnFaults, turns,
                    drv, sentMessages, receivedReplies, posts, crashes,
                    shadow, log, started >>

\* A client that is created with one of the two keys.
LangfuseAfterGetEitherKey(l) ==
    IF l.langfuseClient = "null"
       /\ (l.env.LANGFUSE_PUBLIC_KEY # "" \/ l.env.LANGFUSE_SECRET_KEY # "")
    THEN [l EXCEPT !.langfuseClient = "client", !.created = @ + 1, !.returned = "client"]
    ELSE [l EXCEPT !.returned = l.langfuseClient]

\* getLangfuseClient: the module keeps one client; it is created on the first
\* call that finds both keys, and every call returns what the module keeps.
LangfuseAfterGet(l) ==
    IF l.langfuseClient = "null"
       /\ l.env.LANGFUSE_PUBLIC_KEY # "" /\ l.env.LANGFUSE_SECRET_KEY # ""
    THEN [l EXCEPT !.langfuseClient = "client", !.created = @ + 1, !.returned = "client"]
    ELSE [l EXCEPT !.returned = l.langfuseClient]

\* Some code of the worker asks for the client.
GetLangfuseClient ==
    /\ langfuse.booted
    /\ langfuse' = LangfuseAfterGet(langfuse)
    /\ UNCHANGED << history, up, wf, posted, sendFails, turnFaults, turns,
                    drv, sentMessages, receivedReplies, posts, crashes,
                    shadow, log, started >>

\* One execution of the traced activity, next to what the untraced activity
\* does with the same parameters and the same answer of Agent B.
TracedSend(i, http, flush) ==
    /\ langfuse.booted
    /\ \E l \in {LangfuseAfterGet(langfuse)} :
           langfuse' =
               [l EXCEPT !.send =
                   << [traced |-> SendA2AMessageTraced(AGENT_B_URL, TurnParams(i), http,
                                                       l.returned, flush),
                       untraced |-> SendA2AMessage(AGENT_B_URL, TurnParams(i), http)] >>]
    /\ UNCHANGED << history, up, wf, posted, sendFails, turnFaults, turns,
                    drv, sentMessages, receivedReplies, posts, crashes,
                    shadow, log, started >>

NextL ==
    \/ \E publicKey \in KeyValues, secretKey \in KeyValues :
           ConfigureLangfuse(publicKey, secretKey)
    \/ GetLangfuseClient
    \/ \E i \in 1..NumTurns, http \in HttpOutcomes, flush \in FlushOutcomes :
           TracedSend(i, http, flush)

SpecL == Init /\ [][NextL]_vars

(***************************************************************************)
(* Views used by the properties                                            *)
(***************************************************************************)
\* The conversation ledger: the workflow state, in memory or as replay gives it.
Ledger ==
    IF up THEN wf ELSE Replay(history)

InboundCount(w, m) ==
    Cardinality({ j \in 1..Len(w.inbound) : w.inbound[j].message_id = m })

OutboundCount(w, r) ==
    Cardinality({ j \in 1..Len(w.outbound) : w.outbound[j].message_id = r })

Deliveries(m) ==
    Cardinality({ k \in 1..Len(history.signals) : history.signals[k].message_id = m })

HandlersOf(w, m) ==
    { h \in 1..Len(w.hs) : w.hs[h].message_id = m }

Processed(m) ==
    \E k \in 1..Len(history.results) :
        history.results[k].h \in HandlersOf(Ledger, m)

IsSent(w, r) ==
    \E j \in 1..Len(w.outbound) : w.outbound[j].message_id = r /\ w.outbound[j].sent

\* The requests of the driver that Agent B has received.
DriverRequests ==
    { e.request : e \in { x \in log : x.endpoint = "agent-b" /\ x.from = "driver" } }

IsPrefix(s, t) ==
    /\ Len(s) <= Len(t)
    /\ \A j \in 1..Len(s) : s[j] = t[j]

(***************************************************************************)
(* C1  At-most-once delivery: in every execution, also when the dispatch   *)
(* of a reply is retried or replayed after a crash, the reply with a given *)
(* replyId is transmitted successfully at most once.                       *)
(***************************************************************************)
C1_AtMostOnceDelivery ==
    \A r \in ReplyIds : posts[r] <= 1

(***************************************************************************)
(* C2  Idempotent ingestion: a message delivered N >= 1 times has exactly  *)
(* one InboundRecord, and once its handler has finished exactly one reply  *)
(* transmission.                                                           *)
(***************************************************************************)
C2_IdempotentIngestion ==
    \A m \in MessageIds :
        Deliveries(m) >= 1 =>
            /\ InboundCount(Ledger, m) = 1
            /\ \A h \in HandlersOf(Ledger, m) :
                   Ledger.hs[h].pc = "done" => posts[ReplyId(m)] = 1

(***************************************************************************)
(* C3  Persist-before-terminate: when crash_worker runs for a message, the *)
(* InboundRecord of that message is in the ledger and its signal is in the *)
(* history, the Processing Step of that message has not started, and after *)
(* the restart the ledger still holds exactly one record of it.            *)
(***************************************************************************)
C3_PendingCrashIsPersisted ==
    \A h \in 1..Len(Ledger.hs) :
        Ledger.hs[h].pc = "crash" =>
            /\ InboundCount(Ledger, Ledger.hs[h].message_id) = 1
            /\ Deliveries(Ledger.hs[h].message_id) >= 1
            /\ ~Processed(Ledger.hs[h].message_id)
            /\ h \notin history.failed

C3_OneRecordAfterCrash ==
    \A m \in MessageIds : crashes[m] >= 1 => InboundCount(Ledger, m) = 1

C3_CrashStep ==
    \A m \in MessageIds :
        crashes'[m] > crashes[m] =>
            /\ InboundCount(wf, m) = 1
            /\ Deliveries(m) >= 1
            /\ ~Processed(m)
            /\ Deliveries(m)' = Deliveries(m)

C3_PersistBeforeTerminate ==
    /\ [](C3_PendingCrashIsPersisted /\ C3_OneRecordAfterCrash)
    /\ [][C3_CrashStep]_vars

C3_Witness ==
    /\ up
    /\ crashes["m3"] = 1
    /\ Deliveries("m3") = 2
    /\ InboundCount(wf, "m3") = 1

(***************************************************************************)
(* C4  Scenario B: with the trigger sent as the third turn, the worker is  *)
(* killed after the trigger was persisted, and once it is back the         *)
(* conversation resumes: the reply to the trigger is sent, all three       *)
(* messages end with a sent reply, a re-delivery of the trigger adds no    *)
(* record, and once the reply is marked sent it is not transmitted again.  *)
(***************************************************************************)
C4_AllReplied ==
    /\ up
    /\ \A m \in MessageIds :
           /\ InboundCount(wf, m) = 1
           /\ OutboundCount(wf, ReplyId(m)) = 1
           /\ IsSent(wf, ReplyId(m))
           /\ posts[ReplyId(m)] >= 1

C4_NoResendOnceSent ==
    IsSent(Ledger, ReplyId("m3")) => posts'[ReplyId("m3")] = posts[ReplyId("m3")]

C6_ReplayDeterminism ==
    /\ Replay(history) = shadow
    /\ up => wf = shadow

C6_Witness ==
    /\ up
    /\ crashes["m3"] = 1
    /\ Len(wf.inbound) = 3
    /\ Len(history.signals) = 4
    /\ IsSent(wf, ReplyId("m1"))

(***************************************************************************)
(* C7  Invariant I2: an OutboundRecord is created with sent = false, sent  *)
(* is true only after a confirmed successful transmission of that reply,   *)
(* and a sent flag never goes back to false.                               *)
(***************************************************************************)
C7_SentOnlyAfterTransmission ==
    \A w \in {Ledger} :
        \A j \in 1..Len(w.outbound) :
            w.outbound[j].sent =>
                /\ posts[w.outbound[j].message_id] >= 1
                /\ \E h \in history.sent :
                       ReplyId(w.hs[h].message_id) = w.outbound[j].message_id

C7_CreatedUnsentAndMonotone ==
    \A old \in {Ledger}, new \in {Ledger'} :
        \A r \in ReplyIds :
            /\ (OutboundCount(old, r) = 0 /\ OutboundCount(new, r) > 0) => ~IsSent(new, r)
            /\ IsSent(old, r) => IsSent(new, r)

C7_InvariantI2 ==
    /\ []C7_SentOnlyAfterTransmission
    /\ [][C7_CreatedUnsentAndMonotone]_vars

C7_Witness ==
    /\ up
    /\ crashes["m3"] = 1
    /\ IsSent(wf, ReplyId("m1"))
    /\ OutboundCount(wf, ReplyId("m2")) = 1
    /\ ~IsSent(wf, ReplyId("m2"))

(***************************************************************************)
(* C8  Invariant I1: the ledger holds at most one OutboundRecord for the   *)
(* replyId derived from an inbound messageId, and distinct messageIds      *)
(* derive distinct replyIds.                                               *)
(***************************************************************************)
C8_InvariantI1 ==
    /\ \A m \in MessageIds : OutboundCount(Ledger, ReplyId(m)) <= 1
    /\ \A j \in 1..Len(Ledger.outbound) :
           Cardinality({ m \in MessageIds : ReplyId(m) = Ledger.outbound[j].message_id }) = 1
    /\ \A m1, m2 \in MessageIds : m1 # m2 => ReplyId(m1) # ReplyId(m2)

C8_Witness ==
    /\ up
    /\ crashes["m3"] = 1
    /\ Len(wf.outbound) = 3

(***************************************************************************)
(* C9  Invariant I3: the inbound sequence is append-only and deduplicated: *)
(* no two records share a messageId, and every step, duplicate deliveries  *)
(* and crash recovery included, keeps the earlier sequence as a prefix.    *)
(***************************************************************************)
C9_Deduplicated ==
    \A w \in {Ledger} :
        \A j, k \in 1..Len(w.inbound) :
            j # k => w.inbound[j].message_id # w.inbound[k].message_id

C9_AppendOnly ==
    \A old \in {Ledger}, new \in {Ledger'} : IsPrefix(old.inbound, new.inbound)

C9_InvariantI3 ==
    /\ []C9_Deduplicated
    /\ [][C9_AppendOnly]_vars

C9_Witness ==
    /\ up
    /\ crashes["m3"] = 1
    /\ Deliveries("m2") = 2
    /\ Len(wf.inbound) = 3

(***************************************************************************)
(* C10  No duplicate replies: the replies collected by the driver hold no  *)
(* replyId twice.                                                          *)
(***************************************************************************)
C10_NoDuplicateReplies ==
    \A j, k \in 1..Len(receivedReplies) :
        j # k => receivedReplies[j].messageId # receivedReplies[k].messageId

(***************************************************************************)
(* C11  Scenario A: the 3-turn conversation in which no activity fails and *)
(* every reply is in time has no crash and ends, when the driver is        *)
(* completed, with 3 InboundRecords, 3 OutboundRecords all sent and 3      *)
(* received replies.  As amended: the third turn carries the trigger, so   *)
(* the responder crashes and recovers once; the end state is the same.     *)
(***************************************************************************)
C11_Outcome ==
    /\ up
    /\ Len(wf.inbound) = 3
    /\ Len(wf.outbound) = 3
    /\ \A j \in 1..Len(wf.outbound) : wf.outbound[j].sent
    /\ Len(receivedReplies) = 3

C12_SentBoundedByTurns ==
    /\ [](Len(sentMessages) <= turns)
    /\ [][Len(sentMessages') >= Len(sentMessages)]_vars

C14_DriverTerminates ==
    /\ (drv.pc # "idle") ~> (drv.pc = "completed")
    /\ [](drv.pc = "completed" => drv.i = NumTurns /\ Len(sentMessages) <= NumTurns)
    /\ [][drv.pc = "completed" => drv' = drv]_vars

C14_Witness ==
    /\ drv.pc = "completed"
    /\ Len(sentMessages) = 1
    /\ Len(receivedReplies) = 0

(***************************************************************************)
(* C15  Scenario C: when the wait of turn 2 ends and no reply to turn 2    *)
(* has arrived, the driver goes on to turn 3 without error, and no entry   *)
(* for turn 2 is in receivedReplies.                                       *)
(***************************************************************************)
C15_NoReplyFor(i) ==
    \A j \in 1..Len(receivedReplies) :
        receivedReplies[j].messageId # ReplyId(MessageId(i))

C15_WaitEndsWithoutReply ==
    (drv.pc = "sleep" /\ drv.i = 2 /\ C15_NoReplyFor(2) /\ drv' # drv) =>
        /\ drv' = [pc |-> "send", i |-> 3, attempt |-> 1, wait |-> 0, error |-> "none"]
        /\ receivedReplies' = receivedReplies

C15_ScenarioC ==
    /\ [][C15_WaitEndsWithoutReply]_vars
    /\ (drv.pc = "sleep" /\ drv.i = 2) ~> (drv.i = 3)

C15_Witness ==
    /\ Len(sentMessages) = 3
    /\ sentMessages[3].messageId = MessageId(3)
    /\ C15_NoReplyFor(2)
    /\ drv.pc = "sleep"

(***************************************************************************)
(* C16  While the driver waits for the reply of turn i and that reply      *)
(* arrives, the reply is recorded and the driver moves to the next turn at *)
(* that arrival.  As amended: the reply is recorded at its arrival and the *)
(* driver stays in its wait; it moves on only when the wait is over,       *)
(* whether a reply has arrived or not.                                     *)
(***************************************************************************)
C16_ReplyOfTurnArrives ==
    /\ drv.pc = "sleep"
    /\ posts'[ReplyId(MessageId(drv.i))] > posts[ReplyId(MessageId(drv.i))]

C16_Recorded ==
    /\ Len(receivedReplies') = Len(receivedReplies) + 1
    /\ receivedReplies'[Len(receivedReplies')].messageId = ReplyId(MessageId(drv.i))
    /\ SubSeq(receivedReplies', 1, Len(receivedReplies)) = receivedReplies

C16_AdvanceOnReply ==
    [][C16_ReplyOfTurnArrives => C16_Recorded /\ drv' = NextTurn(drv)]_vars

C16_AdvanceOnTimeoutOnly ==
    /\ [][C16_ReplyOfTurnArrives => C16_Recorded /\ drv' = drv]_vars
    /\ [][(drv.pc = "sleep" /\ drv' # drv) =>
              drv' = NextTurn(drv) /\ receivedReplies' = receivedReplies]_vars

C16_Witness ==
    /\ drv.pc = "sleep"
    /\ drv.i = 1
    /\ Len(receivedReplies) = 1
    /\ receivedReplies[1].messageId = ReplyId(MessageId(1))

(***************************************************************************)
(* C17  A reply that reaches Agent A's endpoint while the driver workflow  *)
(* does not exist or is completed is answered with success and changes     *)
(* nothing in the driver.                                                  *)
(***************************************************************************)
C17_ReplyWithoutDriver ==
    /\ drv.pc \in {"idle", "completed"}
    /\ \E r \in ReplyIds : posts'[r] > posts[r]

C18_FailureKeepsLedger ==
    sendFails' > sendFails =>
        /\ wf' = wf
        /\ history' = history
        /\ \E h \in Handlers :
               /\ wf.hs[h].pc = "send"
               /\ OutboundCount(wf, ReplyId(wf.hs[h].message_id)) = 1
               /\ ~IsSent(wf, ReplyId(wf.hs[h].message_id))

C18_TransmissionReusesRecord ==
    \A r \in ReplyIds :
        posts'[r] > posts[r] =>
            /\ OutboundCount(wf, r) = 1
            /\ ~IsSent(wf, r)
            /\ wf'.outbound = wf.outbound

C18_RetryAfterFailure ==
    /\ [][C18_FailureKeepsLedger]_vars
    /\ [][C18_TransmissionReusesRecord]_vars

C18_Witness ==
    /\ sendFails = 1
    /\ up
    /\ Len(wf.hs) = 1
    /\ Len(wf.outbound) = 1
    /\ posts[ReplyId(MessageId(1))] = 1
    /\ IsSent(wf, ReplyId(MessageId(1)))

(***************************************************************************)
(* C19  The outbox upsert is idempotent: for a reply id that is in the     *)
(* outbox it leaves the ledger as it is, sent flag and destination         *)
(* included; marking a sent record as sent changes nothing.                *)
(***************************************************************************)
C19_Destinations == {AGENT_A_URL, "http://agent-x:9000/a2a/message/send"}

C19_UpsertIdempotent ==
    \A w \in {Ledger} :
        \A r \in ReplyIds, d \in C19_Destinations :
            /\ HasReply(w.outbound, r) => UpsertOutbox(w.outbound, r, d) = w.outbound
            /\ UpsertOutbox(UpsertOutbox(w.outbound, r, d), r, d)
                   = UpsertOutbox(w.outbound, r, d)
            /\ IsSent(w, r) => MarkSent(w.outbound, r) = w.outbound

C19_Witness ==
    /\ up
    /\ Len(wf.outbound) = 2
    /\ IsSent(wf, ReplyId(MessageId(1)))
    /\ HasReply(wf.outbound, ReplyId(MessageId(2)))
    /\ ~IsSent(wf, ReplyId(MessageId(2)))

(***************************************************************************)
(* C20  Processing order: of two admitted messages, the one admitted first *)
(* has its Processing Step started (process_message scheduled by its       *)
(* handler) first, also when it is the trigger message.                    *)
(***************************************************************************)
C20_Started(hd) ==
    hd.pc \in {"process", "send", "done", "failed"}

FirstDelivery(m) ==
    CHOOSE k \in 1..Len(history.signals) :
        /\ history.signals[k].message_id = m
        /\ \A j \in 1..(k - 1) : history.signals[j].message_id # m

C21_FirstContentKept ==
    \A w \in {Ledger} : \A j \in 1..Len(w.inbound) :
        /\ w.inbound[j].content = history.signals[FirstDelivery(w.inbound[j].message_id)].content
        /\ Cardinality(HandlersOf(w, w.inbound[j].message_id)) = 1
        /\ Cardinality({ k \in 1..Len(history.results) :
                             history.results[k].h \in HandlersOf(w, w.inbound[j].message_id) }) <= 1

C21_DuplicateStep ==
    \A old \in {Ledger}, new \in {Ledger'} :
        (/\ Len(history'.signals) = Len(history.signals) + 1
         /\ ~IsNew(old.inbound, history'.signals[Len(history'.signals)].message_id))
        => new = old

C21_ContentNotPartOfKey ==
    []C21_FirstContentKept /\ [][C21_DuplicateStep]_vars

C21_Witness ==
    \E k1, k2 \in 1..Len(history.signals) :
        /\ k1 < k2
        /\ history.signals[k1].message_id = history.signals[k2].message_id
        /\ history.signals[k1].content # history.signals[k2].content
        /\ InboundCount(Ledger, history.signals[k1].message_id) = 1
        /\ \E h \in HandlersOf(Ledger, history.signals[k1].message_id) :
               Ledger.hs[h].pc = "done"

(***************************************************************************)
(* C22  Processing at most once: for each admitted messageId the history   *)
(* holds at most one successful completion of process_message, a           *)
(* completion is recorded only for a handler that was waiting for it, and  *)
(* the ledger, also as a replay after a crash rebuilds it, has every       *)
(* handler with a recorded completion past the step, holding the recorded  *)
(* result.                                                                 *)
(***************************************************************************)
Completions(w, m) ==
    { k \in 1..Len(history.results) : history.results[k].h \in HandlersOf(w, m) }

C22_CompletedAtMostOnce ==
    \A w \in {Ledger} : \A m \in MessageIds :
        /\ InboundCount(w, m) = 0 => Completions(w, m) = {}
        /\ Cardinality(Completions(w, m)) <= 1

C22_ReplayReusesResult ==
    \A w \in {Ledger} : \A k \in 1..Len(history.results) :
        /\ history.results[k].h \in 1..Len(w.hs)
        /\ w.hs[history.results[k].h].pc \in {"send", "done"}
        /\ w.hs[history.results[k].h].response = history.results[k].response

C22_CompletionStep ==
    \A old \in {Ledger} :
        Len(history'.results) > Len(history.results)
        => /\ Len(history'.results) = Len(history.results) + 1
           /\ IsPrefix(history.results, history'.results)
           /\ old.hs[history'.results[Len(history'.results)].h].pc = "process"

C23_SentIsRecorded ==
    \A w \in {Ledger} : \A k \in 1..Len(sentMessages) :
        /\ Deliveries(sentMessages[k].messageId) >= 1
        /\ InboundCount(w, sentMessages[k].messageId) = 1

C23_AcknowledgedStep ==
    \A new \in {Ledger'} :
        Len(sentMessages') > Len(sentMessages)
        => /\ Len(history'.signals) = Len(history.signals) + 1
           /\ history'.signals[Len(history'.signals)].message_id
                  = sentMessages'[Len(sentMessages')].messageId
           /\ InboundCount(new, sentMessages'[Len(sentMessages')].messageId) = 1

C23_NoLostMessages ==
    []C23_SentIsRecorded /\ [][C23_AcknowledgedStep]_vars

\* All three turns were acknowledged, the worker has crashed on the third and
\* is down: the ledger Temporal holds has the three messages.
C23_Witness ==
    /\ ~up
    /\ Len(sentMessages) = NumTurns
    /\ \A i \in 1..NumTurns : InboundCount(Replay(history), MessageId(i)) = 1

(***************************************************************************)
(* C24  Transient send failures are retried up to a capped attempt count:  *)
(* the send of one turn is attempted at most 3 times, the second attempt   *)
(* follows a wait of 1 s and the third a wait of 2 s (never more than      *)
(* 10 s); a failure of the first or second attempt leads to the next       *)
(* attempt of the same turn, the failure of the third ends the turn        *)
(* without an entry in sentMessages.                                       *)
(***************************************************************************)
C24_AttemptsAndWaits ==
    /\ drv.attempt \in 1..3
    /\ drv.wait = (IF drv.attempt = 1 THEN 0 ELSE IF drv.attempt = 2 THEN 1 ELSE 2)
    /\ drv.wait <= 10

C24_FailureStep ==
    (drv.pc = "send" /\ drv' # drv /\ sentMessages' = sentMessages)
    => IF drv.attempt < 3
       THEN /\ drv'.pc = "send"
            /\ drv'.i = drv.i
            /\ drv'.attempt = drv.attempt + 1
       ELSE /\ drv'.attempt = 1
            /\ \/ drv'.pc = "send" /\ drv'.i = drv.i + 1
               \/ drv'.pc = "grace" /\ drv.i = 3

C24_CappedRetries ==
    []C24_AttemptsAndWaits /\ [][C24_FailureStep]_vars

\* The third attempt of turn 1 has failed: the driver is at turn 2 and has
\* recorded no sent message.
C24_Witness ==
    /\ drv.pc = "send"
    /\ drv.i = 2
    /\ drv.attempt = 1
    /\ sentMessages = <<>>

(***************************************************************************)
(* C25  Permanent failures are never retried: no attempt of a send follows *)
(* an attempt of the same turn that failed with an authentication or       *)
(* validation error.                                                       *)
(***************************************************************************)
C25_PermanentNeverRetried ==
    ~(drv.pc = "send" /\ drv.attempt > 1 /\ drv.error = "PermanentFailure")

(***************************************************************************)
(* C26  A failed turn aborts only that turn: when the send of a turn ends  *)
(* without success the driver goes on to the next turn (after the last     *)
(* turn: to the final wait), it is never in a failed state, and with its   *)
(* timers and attempts scheduled it reaches the send of every later turn   *)
(* and completes.                                                          *)
(***************************************************************************)
C26_DriverStates ==
    drv.pc \in {"idle", "send", "sleep", "grace", "completed"}

C26_FailedTurnStep ==
    (/\ drv.pc = "send"
     /\ drv' # drv
     /\ sentMessages' = sentMessages
     /\ ~(drv'.pc = "send" /\ drv'.i = drv.i))
    => /\ drv'.attempt = 1
       /\ \/ drv.i < 3 /\ drv'.pc = "send" /\ drv'.i = drv.i + 1
          \/ drv.i = 3 /\ drv'.pc = "grace" /\ drv'.i = 3

C26_LaterTurnsEmitted ==
    /\ \A i \in 1..2 : (drv.pc = "send" /\ drv.i = i) ~> (drv.pc = "send" /\ drv.i = i + 1)
    /\ (drv.pc = "send" /\ drv.i = 3) ~> (drv.pc = "completed")

C26_FailedTurnAbortsOnlyItself ==
    /\ []C26_DriverStates
    /\ [][C26_FailedTurnStep]_vars
    /\ C26_LaterTurnsEmitted

\* Every send of the three turns has failed and the driver has completed.
C26_Witness ==
    /\ drv.pc = "completed"
    /\ sentMessages = <<>>
    /\ turnFaults > 0

(***************************************************************************)
(* C27  Turn content and identifier are a function of the turn index: the  *)
(* request sent in turn i has messageId m<i>; all requests, signals and    *)
(* sentMessages entries with one messageId have one content, whatever the  *)
(* attempt and also after a crash and replay; and the content is the crash *)
(* sentinel exactly for m3.                                                *)
(***************************************************************************)
C27_OneContentPerId ==
    /\ \A q1, q2 \in DriverRequests :
           q1.params.messageId = q2.params.messageId => q1.params.content = q2.params.content
    /\ \A q \in DriverRequests :
           /\ q.params.messageId \in {"m1", "m2", "m3"}
           /\ (q.params.content = "[[TRIGGER:EXECUTE_ORDER_66]]") <=> (q.params.messageId = "m3")
           /\ \A k \in 1..Len(sentMessages) :
                  sentMessages[k].messageId = q.params.messageId
                  => sentMessages[k].content = q.params.content
           /\ \A w \in {Ledger} : \A j \in 1..Len(w.inbound) :
                  w.inbound[j].message_id = q.params.messageId
                  => w.inbound[j].content = q.params.content
    /\ \A k \in 1..Len(sentMessages) :
           \E q \in DriverRequests : q.params.messageId = sentMessages[k].messageId

C27_RequestOfTurn ==
    \A e \in log' \ log :
        (e.endpoint = "agent-b" /\ e.from = "driver")
        => e.request.params.messageId = "m" \o ToString(drv.i)

C27_PureFunctionOfIndex ==
    []C27_OneContentPerId /\ [][C27_RequestOfTurn]_vars

\* The three turns are sent, the second after a lost answer, and the worker
\* has crashed and replayed the three messages.
C27_Witness ==
    /\ Len(sentMessages) = 3
    /\ Deliveries("m2") = 2
    /\ up
    /\ history.crashed # {}
    /\ Len(wf.inbound) = 3

(***************************************************************************)
(* C28  Message identity is stable across retries: every request of the    *)
(* driver carries its messageId as the JSON-RPC request id as well; the    *)
(* attempts of one turn carry one messageId, so that the turns begun so    *)
(* far have produced at most one request each and the deliveries of one    *)
(* messageId are equal; and two different turns never carry the same       *)
(* messageId.                                                              *)
(***************************************************************************)
C28_RequestIds ==
    { q.params.messageId : q \in DriverRequests }

C28_StableIdentity ==
    /\ \A q \in DriverRequests : q.id = q.params.messageId
    /\ Cardinality(DriverRequests) <= drv.i
    /\ Cardinality(C28_RequestIds) = Cardinality(DriverRequests)
    /\ \A k1, k2 \in 1..Len(history.signals) :
           history.signals[k1].message_id = history.signals[k2].message_id
           <=> history.signals[k1].content = history.signals[k2].content

C28_AttemptStep ==
    \A e \in log' \ log :
        (e.endpoint = "agent-b" /\ e.from = "driver")
        => /\ e.request.params.messageId \notin C28_RequestIds
           /\ Cardinality(DriverRequests) < drv.i

C28_MessageIdentity ==
    []C28_StableIdentity /\ [][C28_AttemptStep]_vars

\* Turn 1 was delivered by two attempts and the three turns have been
\* delivered: three requests, three message ids.
C28_Witness ==
    /\ Deliveries("m1") = 2
    /\ Cardinality(DriverRequests) = 3
    /\ Cardinality(C28_RequestIds) = 3

(***************************************************************************)
(* C29  Conversations are independent: a start request, an inbound message *)
(* or a reply that carries the taskId of another conversation changes      *)
(* nothing of this conversation (driver, sent and received lists, ledger   *)
(* and history), and a start request is answered with the workflow id      *)
(* initiator-<taskId> of its own conversation.                             *)
(***************************************************************************)
C29_TaskIdOf(e) ==
    IF e.endpoint = "start-task"
    THEN IF "taskId" \in DOMAIN e.request THEN e.request.taskId ELSE ""
    ELSE IF "taskId" \in DOMAIN e.request.params THEN e.request.params.taskId ELSE ""

C29_OtherConversationStep ==
    \A e \in log' \ log :
        C29_TaskIdOf(e) # "demo-1"
        => UNCHANGED << history, up, wf, posted, sendFails, turnFaults, turns, drv,
                        sentMessages, receivedReplies, posts, crashes, shadow >>

C29_OwnWorkflowIds ==
    \A e \in log :
        e.endpoint = "start-task" /\ "error" \notin DOMAIN e.response
        => e.response.workflowId = "initiator-" \o e.request.taskId

C29_ConversationsIndependent ==
    []C29_OwnWorkflowIds /\ [][C29_OtherConversationStep]_vars

\* A request for conversation demo-2 was answered with success while this
\* conversation ran, and this conversation has its three turns and replies.
C29_Witness ==
    /\ \E e \in log : /\ C29_TaskIdOf(e) = "demo-2"
                      /\ "error" \notin DOMAIN e.response
    /\ Len(sentMessages) = 3
    /\ Len(receivedReplies) = 3
    /\ \A j \in 1..3 : receivedReplies[j].messageId \in ReplyIds

(***************************************************************************)
(* C30  Every response of the initiator's message endpoint carries either  *)
(* a success result or a structured error with a numeric code and a        *)
(* message, never both and never neither.                                  *)
(***************************************************************************)
C30_WellFormed(r) ==
    /\ ("result" \in DOMAIN r) # ("error" \in DOMAIN r)
    /\ "error" \in DOMAIN r
       => /\ DOMAIN r.error = {"code", "message"}
          /\ r.error.code \in Int
          /\ r.error.message \in STRING
          /\ r.error.message # ""

C30_ResultXorError ==
    \A e \in log : e.endpoint = "agent-a" => C30_WellFormed(e.response)

\* The endpoint has answered a reply of Agent B with the result and a request
\* of a client with an error.
C30_Witness ==
    /\ \E e \in log : e.endpoint = "agent-a" /\ "result" \in DOMAIN e.response
    /\ \E e \in log : e.endpoint = "agent-a" /\ "error" \in DOMAIN e.response

(***************************************************************************)
(* C31  The responder's conversation does not complete while an admitted   *)
(* inbound message still lacks a sent reply: whenever the wait of          *)
(* TaskWorkflow.run has passed, every inbound record has an outbound       *)
(* record with sent = TRUE.                                                *)
(***************************************************************************)
C31_RepliedBeforeReturn ==
    \A w \in {Ledger} :
        RunReturned(w)
        => \A j \in 1..Len(w.inbound) : IsSent(w, ReplyId(w.inbound[j].message_id))

(***************************************************************************)
(* C32  Deduplication under interleaved handlers: every handler, wherever  *)
(* it is suspended, has its inbound record; and when a delivery of         *)
(* messageId m arrives while a handler of m is suspended in the crash,     *)
(* processing or send activity, the ledger, the handlers, the recorded     *)
(* results and the transmissions are left as they are.                     *)
(***************************************************************************)
C32_Suspended(w, m) ==
    \E h \in HandlersOf(w, m) : w.hs[h].pc \in {"crash", "process", "send"}

C32_RecordBeforeSuspension ==
    \A w \in {Ledger} : \A h \in 1..Len(w.hs) :
        InboundCount(w, w.hs[h].message_id) = 1

C32_SecondDeliveryStep ==
    \A old \in {Ledger}, new \in {Ledger'} :
        (/\ Len(history'.signals) = Len(history.signals) + 1
         /\ C32_Suspended(old, history'.signals[Len(history'.signals)].message_id))
        => /\ new = old
           /\ history'.results = history.results
           /\ posts' = posts
           /\ posted' = posted

C32_InterleavedDeduplication ==
    []C32_RecordBeforeSuspension /\ [][C32_SecondDeliveryStep]_vars

\* The trigger message was delivered twice and its one handler is still
\* suspended in crash_worker.
C32_Witness ==
    /\ up
    /\ Deliveries("m3") = 2
    /\ Cardinality(HandlersOf(wf, "m3")) = 1
    /\ \E h \in HandlersOf(wf, "m3") : wf.hs[h].pc = "crash"
    /\ InboundCount(wf, "m3") = 1

(***************************************************************************)
(* C33  The driver records turn i in sentMessages if and only if the send  *)
(* of turn i succeeded: a step appends the entry of turn i exactly when    *)
(* the send of turn i returns and the reply wait begins; the driver is in  *)
(* the reply wait of turn i only with turn i as the last entry; and a send *)
(* that fails after its retries leaves sentMessages as it is and puts the  *)
(* driver at the next turn (after the last turn: at the final wait), not   *)
(* in the reply wait.                                                      *)
(***************************************************************************)
C33_WaitOnlyAfterRecord ==
    drv.pc = "sleep"
    => /\ Len(sentMessages) >= 1
       /\ sentMessages[Len(sentMessages)].messageId = "m" \o ToString(drv.i)

C33_SendStep ==
    /\ (drv.pc = "send" /\ drv'.pc = "sleep")
       <=> (/\ Len(sentMessages') = Len(sentMessages) + 1
            /\ IsPrefix(sentMessages, sentMessages')
            /\ sentMessages'[Len(sentMessages')].messageId = "m" \o ToString(drv.i))
    /\ sentMessages' # sentMessages => drv.pc = "send" /\ drv'.pc = "sleep"
    /\ (drv.pc = "send" /\ drv.attempt = 3 /\ drv' # drv /\ drv'.pc # "sleep")
       => /\ sentMessages' = sentMessages
          /\ \/ drv'.pc = "send" /\ drv'.i = drv.i + 1
             \/ drv'.pc = "grace" /\ drv.i = 3

C33_RecordedIffSucceeded ==
    []C33_WaitOnlyAfterRecord /\ [][C33_SendStep]_vars

\* Turn 1 is recorded, the send of turn 2 has failed after its retries, and
\* the driver is at the first attempt of turn 3.
C33_Witness ==
    /\ drv.pc = "send"
    /\ drv.i = 3
    /\ drv.attempt = 1
    /\ Len(sentMessages) = 1
    /\ sentMessages[1].messageId = "m1"

(***************************************************************************)
(* C34  Turns are emitted strictly in order and one at a time: the turn    *)
(* index only grows, by one, and only when the reply wait of the turn has  *)
(* ended or its send has failed; the first attempt of turn i + 1 is the    *)
(* step after that; and sentMessages and the deliveries list the message   *)
(* ids in turn order, sentMessages without repetition and never beyond the *)
(* current turn.                                                           *)
(***************************************************************************)
C34_TurnOf(id) ==
    CHOOSE i \in 1..3 : id = "m" \o ToString(i)

C34_InOrder ==
    /\ \A k \in 1..Len(sentMessages) :
           /\ sentMessages[k].messageId \in {"m1", "m2", "m3"}
           /\ C34_TurnOf(sentMessages[k].messageId) <= drv.i
    /\ \A k1, k2 \in 1..Len(sentMessages) :
           k1 < k2 => C34_TurnOf(sentMessages[k1].messageId)
                          < C34_TurnOf(sentMessages[k2].messageId)
    /\ \A k1, k2 \in 1..Len(history.signals) :
           k1 < k2 => C34_TurnOf(history.signals[k1].message_id)
                          <= C34_TurnOf(history.signals[k2].message_id)

C34_TurnStep ==
    /\ drv'.i # drv.i
       => /\ drv'.i = drv.i + 1
          /\ drv'.pc = "send"
          /\ drv'.attempt = 1
          /\ \/ drv.pc = "sleep"
             \/ drv.pc = "send" /\ drv.attempt = 3 /\ sentMessages' = sentMessages
    /\ (drv.pc = "sleep" /\ drv' # drv)
       => \/ drv'.pc = "send" /\ drv'.i = drv.i + 1
          \/ drv'.pc = "grace" /\ drv.i = 3
    /\ (drv.pc # "send" /\ history'.signals # history.signals) => FALSE

C34_TurnsInOrder ==
    []C34_InOrder /\ [][C34_TurnStep]_vars

\* The driver has completed with the three turns recorded in order, the
\* second after a repeated delivery.
C34_Witness ==
    /\ drv.pc = "completed"
    /\ Len(sentMessages) = 3
    /\ \A k \in 1..3 : sentMessages[k].messageId = "m" \o ToString(k)
    /\ Deliveries("m2") = 2

(***************************************************************************)
(* C35  A reply request that lacks taskId, messageId or content (an empty  *)
(* content included) is rejected with error code -32602 before any signal  *)
(* is sent: it is answered with that error and no result, and the step     *)
(* leaves the driver, its received replies and its sent messages as they   *)
(* are.                                                                    *)
(***************************************************************************)
C35_Lacks(body) ==
    \E f \in {"taskId", "messageId", "content"} :
        f \notin DOMAIN body.params \/ body.params[f] = ""

C35_Rejected ==
    \A e \in log :
        (e.endpoint = "agent-a" /\ C35_Lacks(e.request))
        => /\ "result" \notin DOMAIN e.response
           /\ "error" \in DOMAIN e.response
           /\ e.response.error.code = -32602

C35_RejectedStep ==
    \A e \in log' \ log :
        (e.endpoint = "agent-a" /\ C35_Lacks(e.request))
        => /\ receivedReplies' = receivedReplies
           /\ drv' = drv
           /\ sentMessages' = sentMessages

C35_InvalidReplyRejected ==
    []C35_Rejected /\ [][C35_RejectedStep]_vars

\* A request with an empty content was rejected while the driver was open
\* and waiting for a reply it has not received.
C35_Witness ==
    /\ \E e \in log : /\ e.endpoint = "agent-a"
                      /\ "content" \in DOMAIN e.request.params
                      /\ e.request.params.content = ""
                      /\ e.response.error.code = -32602
    /\ drv.pc = "sleep"
    /\ receivedReplies = <<>>

(***************************************************************************)
(* C36  When signalling the driver fails for a reason other than the       *)
(* workflow not being found, the reply endpoint answers with error code    *)
(* -32603 and no result, and the driver's replies are unchanged; it        *)
(* answers with status "received" only when the signal reached the driver  *)
(* (the reply is appended) or the workflow was not found (nothing          *)
(* changes).                                                               *)
(***************************************************************************)
C36_Answers ==
    \A e \in log :
        e.endpoint = "agent-a"
        => /\ e.signal = "failed"
              => /\ "result" \notin DOMAIN e.response
                 /\ "error" \in DOMAIN e.response
                 /\ e.response.error.code = -32603
           /\ "result" \in DOMAIN e.response
              => /\ e.response.result.status = "received"
                 /\ e.signal \in {"signalled", "not-found"}

C36_SignalStep ==
    \A e \in log' \ log :
        e.endpoint = "agent-a"
        => IF "result" \in DOMAIN e.response /\ e.signal = "signalled"
           THEN receivedReplies' = Append(receivedReplies,
                                          [messageId |-> e.request.params.messageId,
                                           content |-> e.request.params.content])
           ELSE receivedReplies' = receivedReplies

C36_ReceivedOnlyAfterSignal ==
    []C36_Answers /\ [][C36_SignalStep]_vars

\* A reply of Agent B was signalled and answered with the result, and the
\* signal for a valid request of a client failed and was answered -32603.
C36_Witness ==
    /\ \E e \in log : /\ e.endpoint = "agent-a"
                      /\ e.signal = "failed"
                      /\ e.response.error.code = -32603
    /\ \E e \in log : /\ e.endpoint = "agent-a"
                      /\ e.from = "agent-b"
                      /\ e.signal = "signalled"
    /\ Len(receivedReplies) = 1

(***************************************************************************)
(* C37  A start request without taskId is answered with an error and       *)
(* starts no driver; a start request for a taskId whose driver is running  *)
(* is answered with an error and starts no second driver (driver, turns    *)
(* and the executions started are unchanged); a start request answered     *)
(* with success found no running driver and started exactly one.  So every *)
(* taskId has at most one running driver.                                  *)
(***************************************************************************)
C37_AtMostOneDriver ==
    \A t \in TaskIds : RunningDrivers(t) <= 1

C37_StartStep ==
    \A e \in log' \ log :
        e.endpoint = "start-task"
        => IF "taskId" \notin DOMAIN e.request
           THEN /\ e.response = [error |-> "Missing required field: taskId"]
                /\ UNCHANGED << drv, turns, started >>
           ELSE IF RunningDrivers(e.request.taskId) > 0
           THEN /\ "error" \in DOMAIN e.response
                /\ "success" \notin DOMAIN e.response
                /\ UNCHANGED << drv, turns, started >>
           ELSE /\ e.response.success
                /\ started' = [started EXCEPT ![e.request.taskId] = @ + 1]

C37_NoSecondDriver ==
    []C37_AtMostOneDriver /\ [][C37_StartStep]_vars

\* While the driver of demo-1 waits for the reply to its second turn, a second
\* start request for demo-1 was answered with an error.
C37_Witness ==
    /\ \E e \in log : /\ e.endpoint = "start-task"
                      /\ e.from = "client"
                      /\ e.request = [taskId |-> "demo-1", turns |-> 3]
                      /\ e.response = [error |-> "Failed to start task",
                                       details |-> "Workflow execution already started"]
    /\ \E e \in log : /\ e.endpoint = "start-task"
                      /\ e.from = "user"
                      /\ "success" \in DOMAIN e.response
    /\ started["demo-1"] = 1
    /\ drv.pc = "sleep"
    /\ drv.i = 2

(***************************************************************************)
(* C38  Tracing does not change the send: when getLangfuseClient returned  *)
(* null, the traced sendA2AMessage makes the same HTTP request as the      *)
(* untraced one and returns the same result or throws the same error, for  *)
(* every answer of Agent B, and records no trace.  getLangfuseClient       *)
(* returns null unless both keys are set, returns the client when they     *)
(* are, and creates at most one client.                                    *)
(***************************************************************************)
C38_BothKeys ==
    langfuse.env.LANGFUSE_PUBLIC_KEY # "" /\ langfuse.env.LANGFUSE_SECRET_KEY # ""

C38_SameSend ==
    (langfuse.send # <<>> /\ langfuse.returned = "null")
    => /\ langfuse.send[1].traced.request = langfuse.send[1].untraced.request
       /\ langfuse.send[1].traced.outcome = langfuse.send[1].untraced.outcome
       /\ langfuse.send[1].traced.traced = <<>>

C38_OneClient ==
    /\ langfuse.created <= 1
    /\ langfuse.created = (IF langfuse.langfuseClient = "null" THEN 0 ELSE 1)
    /\ langfuse.returned # "none"
       => (langfuse.returned = "null" <=> ~C38_BothKeys)

C38_TracingTransparent ==
    C38_SameSend /\ C38_OneClient

\* Without the secret key a traced send got HTTP 500 and threw what the
\* untraced send throws.
C38_Witness ==
    /\ langfuse.env = [LANGFUSE_PUBLIC_KEY |-> "key", LANGFUSE_SECRET_KEY |-> ""]
    /\ langfuse.returned = "null"
    /\ langfuse.send # <<>>
    /\ langfuse.send[1].traced.outcome = [thrown |-> "Error: HTTP 500: Internal Server Error"]
    /\ langfuse.send[1].untraced.outcome = [thrown |-> "Error: HTTP 500: Internal Server Error"]
    /\ langfuse.send[1].traced.request.body.id = "m3"

====
